---- MODULE Spec2Model ----
(***************************************************************************)
(* order_total: the HTTP service of src/order_total/src/main.rs.           *)
(*                                                                         *)
(* A request is handled by the future handle_request, which runs until it  *)
(* suspends at an await point.  Every action below is one such run: from   *)
(* the arrival of the request (or the completion of the awaited I/O) to    *)
(* the next await or to the end of the handler.  The runtime is            *)
(* current_thread (main.rs:138), so the runs of different requests         *)
(* interleave but never overlap.                                           *)
(*                                                                         *)
(* Strings the code inspects or builds (serde_json's error text, the zip   *)
(* code, the envelopes) are sequences of UTF-8 bytes, one token a byte;    *)
(* the two bytes of U+00E9 are the tokens "<C3>" and "<A9>", the           *)
(* backtick is the token "<BT>".  f32 values are fixed-point integers in   *)
(* units of 1/Scale.                                                       *)
(***************************************************************************)
EXTENDS Integers, Sequences, FiniteSets, TLC

\* pc[r]      where the handler of the request in slot r stands: "idle" (no
\*            request), "read_body", "await_send", "await_text" or "done"
\* req[r]     the request, <<>> when there is none
\* order[r]   the local `order` of the handler, <<>> before the decode
\* reply[r]   what the request's own I/O has returned (body read, send, text)
\* resp[r]    the outcome of the handler: a response, an Err or a panic
\* calls[r]   the outbound calls made for the request, with URL and body
\* env        the value of SALES_TAX_RATE_SERVICE in the process environment
\* rate_url   the lazy static: <<>> until its first dereference
\* env0       the value of env when the process started
\* urls_used  every URL an outbound call of the process went to
VARIABLES pc, req, order, reply, resp, calls, env, rate_url, env0, urls_used

vars == <<pc, req, order, reply, resp, calls, env, rate_url, env0, urls_used>>

(***************************************************************************)
(* Bounds of the model.                                                    *)
(***************************************************************************)
\* number of requests that can be in flight at once
NumReq == 2

Slots == 1..NumReq

(***************************************************************************)
(* Byte strings: the str / String operations the handler uses.             *)
(***************************************************************************)
\* a UTF-8 continuation byte (10xxxxxx): not the first byte of a character
IsContinuation(b) == b \in {"<A9>"}

\* str::is_char_boundary, for 0 <= n <= Len(s)
IsCharBoundary(s, n) == n = 0 \/ n = Len(s) \/ ~IsContinuation(s[n + 1])

\* does pat occur in s at the 0-based byte offset i
MatchAt(s, pat, i) ==
    /\ i + Len(pat) <= Len(s)
    /\ \A k \in 1..Len(pat) : s[i + k] = pat[k]

\* str::find: the 0-based byte offset of the first occurrence, -1 for None
Find(s, pat) ==
    LET hits == {i \in 0..Len(s) : MatchAt(s, pat, i)}
    IN  IF hits = {} THEN -1 ELSE CHOOSE i \in hits : \A j \in hits : i <= j

\* str::contains
Contains(s, pat) == Find(s, pat) >= 0

UpperLetters == <<"A", "B", "C", "D", "E", "F", "G", "H", "I", "J", "K", "L", "M", "N", "O",
                  "P", "Q", "R", "S", "T", "U", "V", "W", "X", "Y", "Z">>

LowerLetters == <<"a", "b", "c", "d", "e", "f", "g", "h", "i", "j", "k", "l", "m", "n", "o",
                  "p", "q", "r", "s", "t", "u", "v", "w", "x", "y", "z">>

\* char::to_lowercase on one byte; bytes of non-ASCII characters of the model
\* (U+00E9 is already lowercase) are kept
LowerByte(b) ==
    IF \E k \in 1..Len(UpperLetters) : UpperLetters[k] = b
    THEN LowerLetters[CHOOSE k \in 1..Len(UpperLetters) : UpperLetters[k] = b]
    ELSE b

\* str::to_lowercase
ToLowercase(s) == [k \in 1..Len(s) |-> LowerByte(s[k])]

RECURSIVE ReplaceByte(_, _, _)
\* str::replace for a one-byte pattern
ReplaceByte(s, from, to) ==
    IF s = <<>> THEN <<>>
    ELSE (IF Head(s) = from THEN to ELSE <<Head(s)>>) \o ReplaceByte(Tail(s), from, to)

\* the three conversions of main.rs:78-81
Clean(s) == ReplaceByte(ReplaceByte(ToLowercase(s), <<"<BT>">>[1], <<>>), <<"_">>[1], <<" ">>)

\* String::truncate(new_len): a no-op when new_len > len, a panic when new_len
\* is not on a character boundary
TruncatePanics(s, n) == n <= Len(s) /\ ~IsCharBoundary(s, n)

Truncate(s, n) == IF n <= Len(s) THEN SubSeq(s, 1, n) ELSE s

(***************************************************************************)
(* The Order record and its decoder.                                       *)
(***************************************************************************)
\* 1.0 in the fixed-point representation of f32
Scale == 100

Fields ==
    <<"order_id", "product_id", "quantity", "subtotal", "shipping_address",
      "shipping_zip", "total">>

FieldSet == {Fields[k] : k \in 1..Len(Fields)}

\* the Rust type of each field of struct Order
FieldType(f) ==
    CASE f \in {"order_id", "product_id", "quantity"} -> "i32"
      [] f \in {"subtotal", "total"} -> "f32"
      [] OTHER -> "String"

\* the field names as bytes, as serde renders them in an error
FieldBytes(f) ==
    CASE f = "order_id" -> <<"o", "r", "d", "e", "r", "_", "i", "d">>
      [] f = "product_id" -> <<"p", "r", "o", "d", "u", "c", "t", "_", "i", "d">>
      [] f = "quantity" -> <<"q", "u", "a", "n", "t", "i", "t", "y">>
      [] f = "subtotal" -> <<"s", "u", "b", "t", "o", "t", "a", "l">>
      [] f = "shipping_address" -> <<"s", "h", "i", "p", "p", "i", "n", "g", "_", "a", "d",
                                     "d", "r", "e", "s", "s">>
      [] f = "shipping_zip" -> <<"s", "h", "i", "p", "p", "i", "n", "g", "_", "z", "i", "p">>
      [] OTHER -> <<"t", "o", "t", "a", "l">>

\* what a visitor of the type says it expected
ExpectedBytes(f) ==
    CASE FieldType(f) = "i32" -> <<"i", "3", "2">>
      [] FieldType(f) = "f32" -> <<"f", "3", "2">>
      [] OTHER -> <<"a", " ", "s", "t", "r", "i", "n", "g">>

\* serde_json's position suffix; the column is written as one digit
Position == <<" ", "a", "t", " ", "l", "i", "n", "e", " ", "1", " ", "c", "o", "l", "u", "m",
              "n", " ", "9">>

\* JSON values of a member of the body: absent, a number or a string.
\* n is the number (fixed-point for an f32 field), s the bytes of a string or
\* the source text of a number.
Absent == [t |-> "absent", n |-> 0, s |-> <<>>]

Num(n, text) == [t |-> "num", n |-> n, s |-> text]

Str(bytes) == [t |-> "str", n |-> 0, s |-> bytes]

\* is the JSON value acceptable for the field's type
TypeOk(f, v) ==
    IF FieldType(f) = "String" THEN v.t = "str" ELSE v.t = "num"

\* serde's invalid_type message for member f holding v
InvalidType(f, v) ==
    (IF v.t = "str"
     THEN <<"i", "n", "v", "a", "l", "i", "d", " ", "t", "y", "p", "e", ":", " ", "s", "t",
            "r", "i", "n", "g", " ", "\"">> \o v.s \o <<"\"">>
     ELSE <<"i", "n", "v", "a", "l", "i", "d", " ", "t", "y", "p", "e", ":", " ", "i", "n",
            "t", "e", "g", "e", "r", " ", "<BT>">> \o v.s \o <<"<BT>">>)
    \o <<",", " ", "e", "x", "p", "e", "c", "t", "e", "d", " ">> \o ExpectedBytes(f) \o Position

\* serde's missing_field message
MissingFieldError(f) == <<"m", "i", "s", "s", "i", "n", "g", " ", "f", "i", "e", "l", "d",
                          " ", "<BT>">> \o FieldBytes(f) \o <<"<BT>">> \o Position

\* serde_json's message for a body that is no JSON value
SyntaxError == <<"e", "x", "p", "e", "c", "t", "e", "d", " ", "v", "a", "l", "u", "e", " ",
                 "a", "t", " ", "l", "i", "n", "e", " ", "1", " ", "c", "o", "l", "u", "m",
                 "n", " ", "1">>

\* the member of a non-empty set of fields that is declared first
FirstField(fs) ==
    LET ks == {k \in 1..Len(Fields) : Fields[k] \in fs}
    IN  Fields[CHOOSE k \in ks : \A j \in ks : k <= j]

\* a body is [json |-> BOOLEAN, m |-> [FieldSet -> value]]; its members are
\* written in declaration order
MistypedIn(body) == {f \in FieldSet : body.m[f].t # "absent" /\ ~TypeOk(f, body.m[f])}

MissingIn(body) == {f \in FieldSet : body.m[f].t = "absent"}

\* a variant of the decoder that fills in a missing total (serde(default))
DecodeOrderDefaultTotal(body) ==
    LET Mistyped == MistypedIn(body)
        Missing == MissingIn(body) \ {"total"}
    IN  IF ~body.json THEN [ok |-> FALSE, order |-> <<>>, err |-> SyntaxError]
        ELSE IF Mistyped # {}
        THEN [ok |-> FALSE, order |-> <<>>,
              err |-> InvalidType(FirstField(Mistyped), body.m[FirstField(Mistyped)])]
        ELSE IF Missing # {}
        THEN [ok |-> FALSE, order |-> <<>>, err |-> MissingFieldError(FirstField(Missing))]
        ELSE [ok |-> TRUE, err |-> <<>>,
              order |-> <<[order_id |-> body.m["order_id"].n,
                           product_id |-> body.m["product_id"].n,
                           quantity |-> body.m["quantity"].n,
                           subtotal |-> body.m["subtotal"].n,
                           shipping_address |-> body.m["shipping_address"].s,
                           shipping_zip |-> body.m["shipping_zip"].s,
                           total |-> body.m["total"].n]>>]

\* serde_json::from_slice::<Order>: the derived Deserialize reports the first
\* mistyped member while it reads the map, and the first missing field in
\* declaration order once the map has ended
DecodeOrder(body) ==
    LET Mistyped == MistypedIn(body)
        Missing == MissingIn(body)
    IN  IF ~body.json THEN [ok |-> FALSE, order |-> <<>>, err |-> SyntaxError]
        ELSE IF Mistyped # {}
        THEN [ok |-> FALSE, order |-> <<>>,
              err |-> InvalidType(FirstField(Mistyped), body.m[FirstField(Mistyped)])]
        ELSE IF Missing # {}
        THEN [ok |-> FALSE, order |-> <<>>, err |-> MissingFieldError(FirstField(Missing))]
        ELSE [ok |-> TRUE, err |-> <<>>,
              order |-> <<[order_id |-> body.m["order_id"].n,
                           product_id |-> body.m["product_id"].n,
                           quantity |-> body.m["quantity"].n,
                           subtotal |-> body.m["subtotal"].n,
                           shipping_address |-> body.m["shipping_address"].s,
                           shipping_zip |-> body.m["shipping_zip"].s,
                           total |-> body.m["total"].n]>>]

(***************************************************************************)
(* Error-message sanitization, main.rs:76-86.                              *)
(***************************************************************************)
\* the new length handed to truncate for a match at offset i (main.rs:83)
CutAt(i) == i - 1

\* The outcomes of the sanitization of a decoder message: the message of the
\* envelope, or a panic.  With a match at offset 0 the subtraction i-1
\* overflows: a panic in a build with overflow checks, usize::MAX (and so a
\* truncate that does nothing) in a build without.
SanitizeOutcomes(text) ==
    IF ~Contains(text, <<"m", "i", "s", "s", "i", "n", "g", " ", "f", "i", "e", "l", "d">>)
    THEN {[panic |-> FALSE, text |-> text]}
    ELSE LET c == Clean(text)
             i == Find(c, <<"a", "t">>)
         IN  IF i = -1 THEN {[panic |-> FALSE, text |-> c]}
             ELSE IF CutAt(i) < 0
             THEN {[panic |-> TRUE, text |-> <<>>], [panic |-> FALSE, text |-> c]}
             ELSE IF TruncatePanics(c, CutAt(i))
             THEN {[panic |-> TRUE, text |-> <<>>]}
             ELSE {[panic |-> FALSE, text |-> Truncate(c, CutAt(i))]}

(***************************************************************************)
(* Responses.                                                              *)
(***************************************************************************)
StatusOK == 200

StatusNotFound == 404

\* a body given as bytes
RawBody(bytes) == [tag |-> "raw", bytes |-> bytes, order |-> <<>>]

\* serde_json::to_string_pretty(&order): the JSON object of the record
ToStringPretty(o) == [tag |-> "json", bytes |-> <<>>, order |-> <<o>>]

CorsHeaders ==
    {<<"Access-Control-Allow-Origin", "*">>,
     <<"Access-Control-Allow-Methods", "GET, POST, OPTIONS">>,
     <<"Access-Control-Allow-Headers", "api,Keep-Alive,User-Agent,Content-Type">>}

\* response_build
ResponseBuild(body) ==
    [kind |-> "response", status |-> StatusOK, headers |-> CorsHeaders, body |-> body]

\* the text served at GET /, kept as one token
Instructions ==
    <<"Try POSTing data to /compute such as: <BT>curl localhost:8002/compute -XPOST -d '...'<BT>">>

\* Response::new(Body::from(..))
InstructionsResponse ==
    [kind |-> "response", status |-> StatusOK, headers |-> {}, body |-> RawBody(Instructions)]

\* Response::default() with the status set to 404
NotFound ==
    [kind |-> "response", status |-> StatusNotFound, headers |-> {}, body |-> RawBody(<<>>)]

\* the handler's future resolves to Err(anyhow::Error): no response is built
HandlerError == [kind |-> "error", status |-> 0, headers |-> {}, body |-> RawBody(<<>>)]

\* the handler's future panics: no response is built
HandlerPanic == [kind |-> "panic", status |-> 0, headers |-> {}, body |-> RawBody(<<>>)]

\* the format! of main.rs:87-88
Envelope(msg) == <<"{", "\"", "s", "t", "a", "t", "u", "s", "\"", ":", "\"", "e", "r", "r",
                   "o", "r", "\"", ",", " ", "\"", "m", "e", "s", "s", "a", "g", "e", "\"",
                   ":", "\"">> \o msg \o <<"\"", "}">>

\* the format! of main.rs:119
ZipErrorEnvelope(zip) ==
    <<"{", "\"", "s", "t", "a", "t", "u", "s", "\"", ":", "\"", "e", "r", "r", "o", "r", "\"",
      ",", " ", "\"", "m", "e", "s", "s", "a", "g", "e", "\"", ":", "\"", "T", "h", "e", " ",
      "z", "i", "p", " ", "c", "o", "d", "e", " ", "(">> \o zip
    \o <<")", " ", "i", "n", " ", "t", "h", "e", " ", "o", "r", "d", "e", "r", " ", "d", "o",
         "e", "s", " ", "n", "o", "t", " ", "h", "a", "v", "e", " ", "a", " ", "c", "o", "r",
         "r", "e", "s", "p", "o", "n", "d", "i", "n", "g", " ", "s", "a", "l", "e", "s", " ",
         "t", "a", "x", " ", "r", "a", "t", "e", ".", "\"", "}">>

(***************************************************************************)
(* The rate: str::parse::<f32> and the total.                              *)
(***************************************************************************)
Digits == <<"0", "1", "2", "3", "4", "5", "6", "7", "8", "9">>

IsDigit(b) == \E k \in 1..Len(Digits) : Digits[k] = b

DigitVal(b) == (CHOOSE k \in 1..Len(Digits) : Digits[k] = b) - 1

RECURSIVE NatVal(_)
NatVal(s) == IF s = <<>> THEN 0 ELSE 10 * NatVal(SubSeq(s, 1, Len(s) - 1)) + DigitVal(s[Len(s)])

AllDigits(s) == s # <<>> /\ \A k \in 1..Len(s) : IsDigit(s[k])

\* the fraction digits as hundredths (further digits are below the resolution)
FracVal(s) ==
    IF Len(s) = 1 THEN 10 * DigitVal(s[1]) ELSE 10 * DigitVal(s[1]) + DigitVal(s[2])

\* parse::<f32> on the decimal forms "d+" and "d+.d+"; any other text of the
\* model (letters, a trailing newline, the empty string) is a ParseFloatError
ParseF32(s) ==
    LET dot == Find(s, <<".">>)
    IN  IF dot = -1
        THEN IF AllDigits(s) THEN [ok |-> TRUE, val |-> Scale * NatVal(s)]
             ELSE [ok |-> FALSE, val |-> 0]
        ELSE LET ip == SubSeq(s, 1, dot)
                 fp == SubSeq(s, dot + 2, Len(s))
             IN  IF AllDigits(ip) /\ AllDigits(fp)
                 THEN [ok |-> TRUE, val |-> Scale * NatVal(ip) + FracVal(fp)]
                 ELSE [ok |-> FALSE, val |-> 0]

\* a total that keeps what the input carried
ComputeTotalKeepInput(o, rate) == o.total + (o.subtotal * (Scale + rate)) \div Scale

\* order.subtotal * (1.0 + rate), main.rs:115
ComputeTotal(o, rate) == (o.subtotal * (Scale + rate)) \div Scale

(***************************************************************************)
(* The process-wide rate-service URL, main.rs:12-20.                       *)
(***************************************************************************)
Unset == "<unset>"

NotUnicode == "<not unicode>"

DefaultUrl == "http://localhost:8001/find_rate"

OtherUrl == "http://rates.internal:9000/find_rate"

EnvValues == {Unset, NotUnicode, OtherUrl}

\* the initializer of the lazy_static: std::env::var is Err for an unset
\* variable and for a value that is not valid Unicode
InitialUrl(e) == IF e \in {Unset, NotUnicode} THEN DefaultUrl ELSE e

\* a static that is evaluated again at every use
SalesTaxRateServiceEveryUse(cur, e) == <<InitialUrl(e)>>

\* the dereference of SALES_TAX_RATE_SERVICE: lazy_static runs the initializer
\* at the first dereference and keeps the value; cur is <<>> before that
SalesTaxRateService(cur, e) == IF cur = <<>> THEN <<InitialUrl(e)>> ELSE cur

(***************************************************************************)
(* Inputs: requests, bodies and the replies of the rate service.           *)
(***************************************************************************)
Methods == {"OPTIONS", "GET", "POST", "PUT"}

Paths == {"/", "/compute", "/unknown"}

\* the members of a well-formed order
BaseMembers ==
    [f \in FieldSet |->
        CASE f = "order_id" -> Num(1, <<"1">>)
          [] f = "product_id" -> Num(2, <<"2">>)
          [] f = "quantity" -> Num(3, <<"3">>)
          [] f = "subtotal" -> Num(100 * Scale, <<"1", "0", "0", ".", "0">>)
          [] f = "shipping_address" -> Str(<<"x">>)
          [] f = "shipping_zip" -> Str(<<"1", "0", "0", "0", "1">>)
          [] OTHER -> Num(0, <<"0", ".", "0">>)]

Obj(m) == [json |-> TRUE, m |-> m]

BaseBody == Obj(BaseMembers)

\* the same order with another total on input
TotalBody == Obj([BaseMembers EXCEPT !["total"] = Num(999 * Scale, <<"9", "9", "9", ".", "0">>)])

\* another subtotal (19.99) and a zip code with a leading zero
OtherBody ==
    Obj([BaseMembers EXCEPT !["subtotal"] = Num(1999, <<"1", "9", ".", "9", "9">>),
                            !["shipping_zip"] = Str(<<"0", "2", "1", "3", "4">>)])

ValidBodies == {BaseBody, TotalBody, OtherBody}

\* every member but f
Without(f) == Obj([BaseMembers EXCEPT ![f] = Absent])

MissingBodies ==
    {Without(f) : f \in FieldSet}
    \cup {Obj([BaseMembers EXCEPT !["quantity"] = Absent, !["total"] = Absent]),
          Obj([f \in FieldSet |-> Absent])}

\* order_id given as a JSON string
StringId(bytes) == Obj([BaseMembers EXCEPT !["order_id"] = Str(bytes)])

MistypedBodies ==
    {StringId(<<"7">>),
     StringId(<<"m", "i", "s", "s", "i", "n", "g", " ", "f", "i", "e", "l", "d">>),
     StringId(<<"m", "i", "s", "s", "i", "n", "g", " ", "f", "i", "e", "l", "d", " ", "<BT>",
                "A", "_", "B", "<BT>">>),
     StringId(<<"m", "i", "s", "s", "i", "n", "g", " ", "f", "i", "e", "l", "d", "<C3>",
                "<A9>", "a", "t">>),
     Obj([BaseMembers EXCEPT !["shipping_zip"] = Num(10001, <<"1", "0", "0", "0", "1">>)])}

\* a body that is no JSON text
NotJson == [json |-> FALSE, m |-> [f \in FieldSet |-> Absent]]

Bodies == ValidBodies \cup MissingBodies \cup MistypedBodies \cup {NotJson}

IsCompute(q) == q.method = "POST" /\ q.path = "/compute"

\* the requests of the first connection: every body on POST /compute, two
\* bodies on every other method and path
AllRequests ==
    {q \in [method : Methods, path : Paths, body : Bodies] :
        IsCompute(q) \/ q.body \in {BaseBody, NotJson}}

\* the requests of the other connections
SmallRequests ==
    {q \in [method : {"OPTIONS", "POST"}, path : {"/compute"},
             body : {BaseBody, Without("quantity")}] :
        IsCompute(q) \/ q.body = BaseBody}

RequestsOf(r) == IF r = 1 THEN AllRequests ELSE SmallRequests

\* the outcome of send(): a network error, or a response with a status
SendResults ==
    {[ok |-> FALSE, status |-> 0], [ok |-> TRUE, status |-> 200], [ok |-> TRUE, status |-> 404]}

RateTexts == {<<"0", ".", "0", "5">>, <<"0", ".", "1">>, <<"a", "b", "c">>, <<"0", ".", "0",
                "5", "\n">>}

\* the outcome of text(): an error while the body is read, or the body
TextResults == {[ok |-> FALSE, text |-> <<>>]} \cup {[ok |-> TRUE, text |-> s] : s \in RateTexts}

\* from_slice on each body of the model
Decoded == [b \in Bodies |-> DecodeOrder(b)]

\* the sanitization of the decoder's message for each body that does not decode
Sanitized ==
    [b \in Bodies |-> IF Decoded[b].ok THEN {} ELSE SanitizeOutcomes(Decoded[b].err)]

\* parse::<f32> on each rate text of the model
Parsed == [s \in RateTexts |-> ParseF32(s)]

\* what the I/O of a request has returned so far
NoIo == [read |-> "none", send |-> <<>>, text |-> <<>>]

(***************************************************************************)
(* The state machine.                                                      *)
(***************************************************************************)
Init ==
    /\ pc = [r \in Slots |-> "idle"]
    /\ req = [r \in Slots |-> <<>>]
    /\ order = [r \in Slots |-> <<>>]
    /\ reply = [r \in Slots |-> NoIo]
    /\ resp = [r \in Slots |-> <<>>]
    /\ calls = [r \in Slots |-> <<>>]
    /\ env \in EnvValues
    /\ env0 = env
    /\ rate_url = <<>>
    /\ urls_used = {}

\* a dispatch on the path alone
RouteByPath(q) ==
    CASE q.path = "/compute" /\ q.method = "OPTIONS" -> "options"
      [] q.path = "/" -> "index"
      [] q.path = "/compute" /\ q.method # "OPTIONS" -> "compute"
      [] OTHER -> "not_found"

\* the match of main.rs:60
Route(q) ==
    CASE q.method = "OPTIONS" /\ q.path = "/compute" -> "options"
      [] q.method = "GET" /\ q.path = "/" -> "index"
      [] q.method = "POST" /\ q.path = "/compute" -> "compute"
      [] OTHER -> "not_found"

\* a global order cell shared by the requests
OrderOfShared(r) == IF order[1] # <<>> THEN order[1][1] ELSE order[r][1]

\* the order handle_order works on: the local of the request's own future
OrderOf(r) == order[r][1]

\* a JSON-wrapped body
CallBodyQuoted(o) == <<"\"">> \o o.shipping_zip \o <<"\"">>

\* the body of the outbound call, main.rs:107
CallBody(o) == o.shipping_zip

\* a lookup that is tried again until it succeeds
AfterSendRetry(res) == IF res.ok /\ res.status = StatusOK THEN "await_text" ELSE "await_send"

\* where the handler goes once send() has returned, main.rs:110-112
AfterSend(res) == IF res.ok /\ res.status = StatusOK THEN "await_text" ELSE "done"

\* A request arrives and handle_request runs to its first await, or to its
\* end on the routes that await nothing.
Receive(r, q) ==
    /\ pc[r] = "idle"
    /\ req' = [req EXCEPT ![r] = <<q>>]
    /\ IF Route(q) = "compute"
       THEN /\ pc' = [pc EXCEPT ![r] = "read_body"]
            /\ UNCHANGED resp
       ELSE /\ pc' = [pc EXCEPT ![r] = "done"]
            /\ resp' = [resp EXCEPT ![r] =
                  CASE Route(q) = "options" -> <<ResponseBuild(RawBody(<<>>))>>
                    [] Route(q) = "index" -> <<InstructionsResponse>>
                    [] OTHER -> <<NotFound>>]
    /\ UNCHANGED <<order, reply, calls, env, rate_url, env0, urls_used>>

\* to_bytes returns the body: decode it and either start the rate lookup
\* (handle_order up to send().await) or answer with the decoder's message
BodyRead(r) ==
    /\ pc[r] = "read_body"
    /\ reply' = [reply EXCEPT ![r].read = "ok"]
    /\ LET d == Decoded[req[r][1].body]
       IN  IF d.ok
           THEN LET url == SalesTaxRateService(rate_url, env)
                IN  /\ order' = [order EXCEPT ![r] = d.order]
                    /\ rate_url' = url
                    /\ calls' = [calls EXCEPT ![r] =
                                    Append(@, [url |-> url[1], body |-> CallBody(d.order[1])])]
                    /\ urls_used' = urls_used \cup {url[1]}
                    /\ pc' = [pc EXCEPT ![r] = "await_send"]
                    /\ UNCHANGED resp
           ELSE /\ \E out \in Sanitized[req[r][1].body] :
                     resp' = [resp EXCEPT ![r] =
                                IF out.panic THEN <<HandlerPanic>>
                                ELSE <<ResponseBuild(RawBody(Envelope(out.text)))>>]
                /\ pc' = [pc EXCEPT ![r] = "done"]
                /\ UNCHANGED <<order, calls, rate_url, urls_used>>
    /\ UNCHANGED <<req, env, env0>>

\* to_bytes fails (the client stops sending): `?` ends the handler with Err
BodyFail(r) ==
    /\ pc[r] = "read_body"
    /\ reply' = [reply EXCEPT ![r].read = "err"]
    /\ resp' = [resp EXCEPT ![r] = <<HandlerError>>]
    /\ pc' = [pc EXCEPT ![r] = "done"]
    /\ UNCHANGED <<req, order, calls, env, rate_url, env0, urls_used>>

\* send() returns: on Ok(200) go on to read the text, otherwise answer with
\* the zip-code envelope
SendReturn(r, res) ==
    /\ pc[r] = "await_send"
    /\ reply' = [reply EXCEPT ![r].send = <<res>>]
    /\ pc' = [pc EXCEPT ![r] = AfterSend(res)]
    /\ resp' = [resp EXCEPT ![r] =
                  IF AfterSend(res) = "done"
                  THEN <<ResponseBuild(RawBody(ZipErrorEnvelope(OrderOf(r).shipping_zip)))>>
                  ELSE @]
    /\ UNCHANGED <<req, order, calls, env, rate_url, env0, urls_used>>

\* text() returns: `?` ends the handler with Err when the read or the parse
\* fails, otherwise the total is set and the order is answered
TextReturn(r, t) ==
    /\ pc[r] = "await_text"
    /\ reply' = [reply EXCEPT ![r].text = <<t>>]
    /\ pc' = [pc EXCEPT ![r] = "done"]
    /\ IF t.ok /\ Parsed[t.text].ok
       THEN LET o == [OrderOf(r) EXCEPT
                         !.total = ComputeTotal(OrderOf(r), Parsed[t.text].val)]
            IN  /\ order' = [order EXCEPT ![r] = <<o>>]
                /\ resp' = [resp EXCEPT ![r] = <<ResponseBuild(ToStringPretty(o))>>]
       ELSE /\ resp' = [resp EXCEPT ![r] = <<HandlerError>>]
            /\ UNCHANGED order
    /\ UNCHANGED <<req, calls, env, rate_url, env0, urls_used>>

\* the outcome is handed to the connection and the request's future is
\* dropped with everything it owned
Finish(r) ==
    /\ pc[r] = "done"
    /\ pc' = [pc EXCEPT ![r] = "idle"]
    /\ req' = [req EXCEPT ![r] = <<>>]
    /\ order' = [order EXCEPT ![r] = <<>>]
    /\ reply' = [reply EXCEPT ![r] = NoIo]
    /\ resp' = [resp EXCEPT ![r] = <<>>]
    /\ calls' = [calls EXCEPT ![r] = <<>>]
    /\ UNCHANGED <<env, rate_url, env0, urls_used>>

\* the environment variable of the process is set or removed
SetEnv(v) ==
    /\ v # env
    /\ env' = v
    /\ UNCHANGED <<pc, req, order, reply, resp, calls, rate_url, env0, urls_used>>

Next ==
    \/ \E r \in Slots : \E q \in RequestsOf(r) : Receive(r, q)
    \/ \E r \in Slots : BodyRead(r)
    \/ \E r \in Slots : BodyFail(r)
    \/ \E r \in Slots : \E res \in SendResults : SendReturn(r, res)
    \/ \E r \in Slots : \E t \in TextResults : TextReturn(r, t)
    \/ \E r \in Slots : Finish(r)

Spec == Init /\ [][Next]_vars

\* the same with changes of the environment variable
NextEnv == Next \/ \E v \in EnvValues : SetEnv(v)

SpecEnv == Init /\ [][NextEnv]_vars

\* The rate calls of the slots in Stalled may never return; everything else
\* that is enabled eventually happens.
Stalled == {NumReq}

Fairness ==
    /\ \A r \in Slots : WF_vars(BodyRead(r) \/ BodyFail(r))
    /\ \A r \in Slots \ Stalled : WF_vars(\E res \in SendResults : SendReturn(r, res))
    /\ \A r \in Slots \ Stalled : WF_vars(\E t \in TextResults : TextReturn(r, t))

FairSpec == Spec /\ Fairness

(***************************************************************************)
(* Properties.                                                             *)
(***************************************************************************)
\* the request was POST /compute and its body was read
ComputeRead(r) == pc[r] = "done" /\ IsCompute(req[r][1]) /\ reply[r].read = "ok"

\* the Order a well-formed body denotes, member by member
InputOrder(body) ==
    [order_id |-> body.m["order_id"].n, product_id |-> body.m["product_id"].n,
     quantity |-> body.m["quantity"].n, subtotal |-> body.m["subtotal"].n,
     shipping_address |-> body.m["shipping_address"].s,
     shipping_zip |-> body.m["shipping_zip"].s, total |-> body.m["total"].n]

\* the rate texts of the model that are decimal fractions, in hundredths
RateTable == {<<<<"0", ".", "0", "5">>, 5>>, <<<<"0", ".", "1">>, 10>>}

\* the rate service answered 200 with a body that is the rate p[2]
RateReplied(r, p) ==
    /\ reply[r].send = <<[ok |-> TRUE, status |-> 200]>>
    /\ reply[r].text = <<[ok |-> TRUE, text |-> p[1]]>>

\* the success response for order o and rate (in hundredths)
SuccessResponse(o, rate) ==
    [kind |-> "response", status |-> 200, headers |-> CorsHeaders,
     body |-> [tag |-> "json", bytes |-> <<>>,
               order |-> <<[o EXCEPT !.total = (o.subtotal * (100 + rate)) \div 100]>>]]

\* C1: a POST /compute with a valid Order, answered by the rate service with
\* 200 and a rate r, gets status 200 with the CORS headers and the input
\* Order with total = subtotal * (1 + r); the other fields are the input's,
\* and two orders that differ only in the input total get the same response.
C1_SuccessBody ==
    /\ \A r \in Slots : \A p \in RateTable :
          (ComputeRead(r) /\ req[r][1].body \in ValidBodies /\ RateReplied(r, p))
          => resp[r] = <<SuccessResponse(InputOrder(req[r][1].body), p[2])>>
    /\ \A r, s \in Slots : \A p \in RateTable :
          (/\ ComputeRead(r) /\ ComputeRead(s)
           /\ {req[r][1].body, req[s][1].body} \subseteq ValidBodies
           /\ [InputOrder(req[r][1].body) EXCEPT !.total = 0]
                = [InputOrder(req[s][1].body) EXCEPT !.total = 0]
           /\ RateReplied(r, p) /\ RateReplied(s, p))
          => resp[r] = resp[s]

\* subtotal 100.00 with an input total of 999.00 and rate 0.05: total 105.00
C1_Witness ==
    \E r \in Slots :
        /\ ComputeRead(r) /\ req[r][1].body = TotalBody
        /\ RateReplied(r, <<<<"0", ".", "0", "5">>, 5>>)
        /\ resp[r][1].body.order[1].total = 10500
        /\ resp[r][1].body.order[1].subtotal = 10000

\* the rate lookup of request r failed in one of the three ways
LookupFailed(r) ==
    /\ reply[r].send # <<>>
    /\ \/ ~reply[r].send[1].ok
       \/ reply[r].send[1].status # 200
       \/ /\ reply[r].text # <<>>
          /\ reply[r].text[1].ok
          /\ \A p \in RateTable : reply[r].text[1].text # p[1]

\* C2: for a valid Order, a failed rate lookup (a status other than 200, a
\* network error, or a 200 body that is no rate) is answered with status 200
\* and the envelope that names the order's shipping_zip and has no total;
\* it never ends the request as a handler error.
C2_LookupFailureEnvelope ==
    \A r \in Slots :
        (ComputeRead(r) /\ req[r][1].body \in ValidBodies /\ LookupFailed(r))
        => /\ resp[r][1].kind = "response"
           /\ resp[r][1].status = 200
           /\ resp[r][1].body.tag = "raw"
           /\ resp[r][1].body.bytes =
                 <<"{", "\"", "s", "t", "a", "t", "u", "s", "\"", ":", "\"", "e", "r", "r",
                   "o", "r", "\"", ",", " ", "\"", "m", "e", "s", "s", "a", "g", "e", "\"",
                   ":", "\"", "T", "h", "e", " ", "z", "i", "p", " ", "c", "o", "d", "e", " ",
                   "(">>
                 \o req[r][1].body.m["shipping_zip"].s
                 \o <<")", " ", "i", "n", " ", "t", "h", "e", " ", "o", "r", "d", "e", "r",
                      " ", "d", "o", "e", "s", " ", "n", "o", "t", " ", "h", "a", "v", "e",
                      " ", "a", " ", "c", "o", "r", "r", "e", "s", "p", "o", "n", "d", "i",
                      "n", "g", " ", "s", "a", "l", "e", "s", " ", "t", "a", "x", " ", "r",
                      "a", "t", "e", ".", "\"", "}">>
           /\ ~Contains(resp[r][1].body.bytes, <<"t", "o", "t", "a", "l">>)

\* C3 as stated: a body with every field but total is decoded as a valid
\* Order and handed to the Tax Calculator, never answered with a decoding
\* error envelope.
C3_TotalOptional ==
    \A r \in Slots :
        (ComputeRead(r) /\ req[r][1].body = Without("total"))
        => /\ order[r] # <<>>
           /\ Len(calls[r]) = 1

\* C3 as amended: total is required on input.  A body with every field but
\* total is answered with status 200, the CORS headers and the decoding
\* envelope "missing field total", and no rate lookup is made for it.
C3_TotalRequired ==
    \A r \in Slots :
        (ComputeRead(r) /\ req[r][1].body = Without("total"))
        => /\ resp[r] = <<[kind |-> "response", status |-> 200, headers |-> CorsHeaders,
                           body |-> [tag |-> "raw", order |-> <<>>,
                                     bytes |-> <<"{", "\"", "s", "t", "a", "t", "u", "s",
                                                 "\"", ":", "\"", "e", "r", "r", "o", "r",
                                                 "\"", ",", " ", "\"", "m", "e", "s", "s",
                                                 "a", "g", "e", "\"", ":", "\"", "m", "i",
                                                 "s", "s", "i", "n", "g", " ", "f", "i", "e",
                                                 "l", "d", " ", "t", "o", "t", "a", "l", "\"",
                                                 "}">>]]>>
           /\ order[r] = <<>>
           /\ calls[r] = <<>>

C3_Witness ==
    \E r \in Slots :
        /\ ComputeRead(r) /\ req[r][1].body = Without("total")
        /\ Contains(resp[r][1].body.bytes, <<"m", "i", "s", "s", "i", "n", "g", " ", "f", "i",
                                             "e", "l", "d", " ", "t", "o", "t", "a", "l">>)

\* does s start with pre and end with post
Wrapped(s, pre, post) ==
    /\ Len(s) >= Len(pre) + Len(post)
    /\ SubSeq(s, 1, Len(pre)) = pre
    /\ SubSeq(s, Len(s) - Len(post) + 1, Len(s)) = post

\* C4: a POST /compute with a malformed body (no JSON, a field missing or of
\* the wrong type) is answered with status 200, the CORS headers and an
\* error envelope with a message; never with an HTTP error status, and the
\* handler never fails.
C4_MalformedEnvelope ==
    \A r \in Slots :
        (ComputeRead(r) /\ req[r][1].body \notin ValidBodies)
        => /\ resp[r][1].kind = "response"
           /\ resp[r][1].status = 200
           /\ resp[r][1].headers = CorsHeaders
           /\ resp[r][1].body.tag = "raw"
           /\ Wrapped(resp[r][1].body.bytes, <<"{", "\"", "s", "t", "a", "t", "u", "s", "\"",
                                               ":", "\"", "e", "r", "r", "o", "r", "\"", ",",
                                               " ", "\"", "m", "e", "s", "s", "a", "g", "e",
                                               "\"", ":", "\"">>, <<"\"", "}">>)

\* the field names with underscores as spaces
FieldWords(f) ==
    CASE f = "order_id" -> <<"o", "r", "d", "e", "r", " ", "i", "d">>
      [] f = "product_id" -> <<"p", "r", "o", "d", "u", "c", "t", " ", "i", "d">>
      [] f = "quantity" -> <<"q", "u", "a", "n", "t", "i", "t", "y">>
      [] f = "subtotal" -> <<"s", "u", "b", "t", "o", "t", "a", "l">>
      [] f = "shipping_address" -> <<"s", "h", "i", "p", "p", "i", "n", "g", " ", "a", "d",
                                     "d", "r", "e", "s", "s">>
      [] f = "shipping_zip" -> <<"s", "h", "i", "p", "p", "i", "n", "g", " ", "z", "i", "p">>
      [] OTHER -> <<"t", "o", "t", "a", "l">>

\* the message the sanitization policy prescribes for a decoder text
PrescribedMessage(text) ==
    IF Contains(text, <<"m", "i", "s", "s", "i", "n", "g", " ", "f", "i", "e", "l", "d">>)
    THEN LET c == ReplaceByte(ReplaceByte(ToLowercase(text), "<BT>", <<>>), "_", <<" ">>)
             i == Find(c, <<"a", "t">>)
         IN  IF i = -1 THEN c ELSE SubSeq(c, 1, i - 1)
    ELSE text

\* the response that carries the envelope with message msg
EnvelopeResponse(msg) ==
    [kind |-> "response", status |-> 200, headers |-> CorsHeaders,
     body |-> [tag |-> "raw", order |-> <<>>,
               bytes |-> <<"{", "\"", "s", "t", "a", "t", "u", "s", "\"", ":", "\"", "e", "r",
                           "r", "o", "r", "\"", ",", " ", "\"", "m", "e", "s", "s", "a", "g",
                           "e", "\"", ":", "\"">> \o msg \o <<"\"", "}">>]]

\* C5: a decoder text with "missing field" is lowercased, loses its
\* backticks, has its underscores turned into spaces and is cut before the
\* first "at" (a body missing field f yields exactly "missing field <f>");
\* any other decoder text is the message unchanged.
C5_Sanitized ==
    /\ \A r \in Slots : \A f \in FieldSet :
          (ComputeRead(r) /\ req[r][1].body = Without(f))
          => resp[r] = <<EnvelopeResponse(<<"m", "i", "s", "s", "i", "n", "g", " ", "f", "i",
                                            "e", "l", "d", " ">> \o FieldWords(f))>>
    /\ \A r \in Slots :
          (ComputeRead(r) /\ ~Decoded[req[r][1].body].ok)
          => resp[r] = <<EnvelopeResponse(PrescribedMessage(Decoded[req[r][1].body].err))>>

\* the three routes that are served
Served(q) ==
    \/ q.method = "OPTIONS" /\ q.path = "/compute"
    \/ q.method = "GET" /\ q.path = "/"
    \/ q.method = "POST" /\ q.path = "/compute"

\* C6: the response is 404 with an empty body exactly when (method, path) is
\* none of OPTIONS /compute, GET / and POST /compute, whatever the body;
\* OPTIONS /compute is always answered 200 with an empty body and the three
\* CORS headers.
C6_Dispatch ==
    \A r \in Slots :
        pc[r] = "done"
        => /\ (resp[r][1].kind = "response" /\ resp[r][1].status = 404) <=> ~Served(req[r][1])
           /\ ~Served(req[r][1])
              => resp[r][1].body = [tag |-> "raw", bytes |-> <<>>, order |-> <<>>]
           /\ (req[r][1].method = "OPTIONS" /\ req[r][1].path = "/compute")
              => resp[r] = <<[kind |-> "response", status |-> 200, headers |-> CorsHeaders,
                              body |-> [tag |-> "raw", bytes |-> <<>>, order |-> <<>>]]>>

\* a 404 for POST / next to a preflight answered after other requests
C6_Witness ==
    /\ pc[1] = "done" /\ req[1][1].method = "POST" /\ req[1][1].path = "/"
    /\ resp[1][1].status = 404
    /\ \E r \in Slots \ {1} :
          /\ pc[r] = "done" /\ req[r][1].method = "OPTIONS"
          /\ resp[r][1].status = 200 /\ resp[r][1].headers = CorsHeaders
    /\ rate_url # <<>>

\* C7: the outcome of a request is a function of the request and of what
\* its own I/O returned: two completed requests that agree on both have the
\* same outcome, whatever was in flight beside them.
C7_Independent ==
    \A r, s \in Slots :
        (pc[r] = "done" /\ pc[s] = "done" /\ req[r] = req[s] /\ reply[r] = reply[s])
        => resp[r] = resp[s]

\* two equal valid POSTs answered with the same success body
C7_Witness ==
    \E r, s \in Slots :
        /\ r # s /\ pc[r] = "done" /\ pc[s] = "done"
        /\ req[r] = req[s] /\ reply[r] = reply[s]
        /\ IsCompute(req[r][1]) /\ resp[r][1].body.tag = "json"
        /\ resp[s][1].body.tag = "json"

C9_State ==
    \A r \in Slots :
        /\ Len(calls[r]) <= 1
        /\ calls[r] # <<>>
           => /\ IsCompute(req[r][1]) /\ req[r][1].body \in ValidBodies
              /\ reply[r].read = "ok"
              /\ calls[r][1].body = req[r][1].body.m["shipping_zip"].s
        /\ (pc[r] \in {"await_send", "await_text", "done"} /\ IsCompute(req[r][1])
            /\ req[r][1].body \in ValidBodies /\ reply[r].read = "ok")
           => Len(calls[r]) = 1

\* C9: a request makes exactly one outbound POST when it is a POST /compute
\* whose body decodes to a valid Order and none otherwise; the call is made
\* after the decode and before the response, its body is the order's
\* shipping_zip, and it is never made again.
C9_OneCall ==
    [][/\ C9_State'
       /\ \A r \in Slots :
             (calls'[r] # calls[r] /\ calls'[r] # <<>>)
             => /\ calls[r] = <<>>
                /\ order'[r] # <<>>
                /\ resp[r] = <<>> /\ resp'[r] = <<>>]_vars

\* a request answered after a failed lookup, with its one call on record
C9_Witness ==
    \E r \in Slots :
        /\ pc[r] = "done" /\ req[r][1].body = OtherBody /\ IsCompute(req[r][1])
        /\ reply[r].send = <<[ok |-> FALSE, status |-> 0]>>
        /\ calls[r] = <<[url |-> rate_url[1], body |-> <<"0", "2", "1", "3", "4">>]>>

\* C10: with the body eventually read and the rate calls of the slots outside
\* Stalled eventually returning, every request of those slots completes; a
\* request of a stalled slot completes unless it waits for the rate service,
\* and completes in any case when its body does not decode.
C10_Completes ==
    /\ \A r \in Slots \ Stalled : (pc[r] # "idle") ~> (pc[r] = "done")
    /\ \A r \in Stalled : (pc[r] # "idle") ~> (pc[r] \in {"done", "await_send", "await_text"})
    /\ \A r \in Stalled :
          (pc[r] = "read_body" /\ req[r][1].body \notin ValidBodies) ~> (pc[r] = "done")

\* a request completed while the rate call of another is outstanding
C10_Witness ==
    \E r \in Slots \ Stalled : \E s \in Stalled :
        /\ pc[s] = "await_send"
        /\ pc[r] = "done" /\ IsCompute(req[r][1]) /\ resp[r][1].body.tag = "json"

====
